---- MODULE Spec2Model ----
(***************************************************************************)
(* ResumeMatch AI (src/app.py): the document extractor                     *)
(* extract_text_from_file, the evaluation orchestrator analyze_resume and  *)
(* the Streamlit script main that composes them.                           *)
(*                                                                         *)
(* Text is a sequence of code points, a byte payload a sequence of byte    *)
(* values, an optional value (Python's None or a value) a sequence of      *)
(* length 0 or 1.                                                          *)
(***************************************************************************)
EXTENDS Integers, Sequences, FiniteSets, TLC

\* Longest byte payload / job-description text that is enumerated.
MaxLen == 2
\* Most pages of a PDF and most paragraphs of a word-processing document.
MaxPages == 2
\* Most successive calls of extract_text_from_file on one file object.
MaxCalls == 2

None == <<>>
Some(x) == <<x>>

RECURSIVE SeqsUpTo(_, _)
SeqsUpTo(S, n) ==
    IF n = 0 THEN {<<>>}
    ELSE LET shorter == SeqsUpTo(S, n - 1)
         IN  shorter \cup {Append(s, x) : s \in {t \in shorter : Len(t) = n - 1}, x \in S}

-----------------------------------------------------------------------------
(* Media types (uploaded_file.type).                                       *)
TXT  == "text/plain"
PDF  == "application/pdf"
DOCX == "application/vnd.openxmlformats-officedocument.wordprocessingml.document"
\* Types the three branches of extract_text_from_file do not name.
OtherTypes == {"image/png", "application/msword"}

\* Byte values of the payloads: 'a', ' ', the two bytes of U+00E9, and 0xFF,
\* which occurs in no UTF-8 encoding.
Bytes == {97, 32, 195, 169, 255}
\* Characters of the texts a PDF page, a paragraph or the text area holds.
Chars == {97, 32}

\* bytes.decode("utf-8", errors="ignore") on payloads over Bytes: an ASCII
\* byte is its character, a two-byte lead followed by a continuation byte is
\* one character, and any byte that starts no valid sequence is skipped.
RECURSIVE decode(_)
decode(b) ==
    IF b = <<>> THEN <<>>
    ELSE IF b[1] < 128 THEN <<b[1]>> \o decode(Tail(b))
    ELSE IF b[1] \in 194..223 /\ Len(b) >= 2 /\ b[2] \in 128..191
         THEN <<(b[1] - 192) * 64 + (b[2] - 128)>> \o decode(Tail(Tail(b)))
    ELSE decode(Tail(b))

\* uploaded_file.read(): the bytes from the read position to the end; the
\* position is left at the end of the payload.
read(f) == [data |-> SubSeq(f.bytes, f.pos + 1, Len(f.bytes)),
            file |-> [f EXCEPT !.pos = Len(f.bytes)]]

\* page.extract_text() or "": None and "" both contribute the empty text.
or_empty(t) == IF t = None THEN <<>> ELSE t[1]

\* A loop that puts a line break after every page.
RECURSIVE concat_pages_separated(_)
concat_pages_separated(pages) ==
    IF pages = <<>> THEN <<>>
    ELSE or_empty(pages[1]) \o <<10>> \o concat_pages_separated(Tail(pages))

\* text = ""; for page in reader.pages: text += page.extract_text() or ""
RECURSIVE concat_pages(_)
concat_pages(pages) ==
    IF pages = <<>> THEN <<>>
    ELSE or_empty(pages[1]) \o concat_pages(Tail(pages))

\* "\n".join(p.text for p in doc.paragraphs)
RECURSIVE join_paragraphs(_)
join_paragraphs(ps) ==
    IF ps = <<>> THEN <<>>
    ELSE IF Len(ps) = 1 THEN ps[1]
    ELSE ps[1] \o <<10>> \o join_paragraphs(Tail(ps))

\* A file object: its declared type, its payload and its read position.  For
\* a PDF or a word-processing payload the model holds what the parsing
\* library makes of the bytes: whether it accepts them (wellformed) and the
\* pages or paragraphs it then yields.
File(type, bytes, wellformed, pages, paragraphs) ==
    [type |-> type, bytes |-> bytes, wellformed |-> wellformed,
     pages |-> pages, paragraphs |-> paragraphs, pos |-> 0]

PageTexts == {None} \cup {Some(t) : t \in SeqsUpTo(Chars, 1)}
ParagraphTexts == SeqsUpTo(Chars, 1)

Files ==
    {File(TXT, b, TRUE, <<>>, <<>>) : b \in SeqsUpTo(Bytes, MaxLen)}
    \cup {File(PDF, <<>>, TRUE, p, <<>>) : p \in SeqsUpTo(PageTexts, MaxPages)}
    \cup {File(PDF, <<>>, FALSE, <<>>, <<>>)}
    \cup {File(DOCX, <<>>, TRUE, <<>>, p) : p \in SeqsUpTo(ParagraphTexts, MaxPages)}
    \cup {File(DOCX, <<>>, FALSE, <<>>, <<>>)}
    \cup {File(t, b, TRUE, <<>>, <<>>) : t \in OtherTypes, b \in {<<>>, <<97>>}}

\* The outcome of one call: the exception that left it ("" when it returned),
\* the text returned, the file object afterwards, the diagnostics emitted.
Returned(text, f, diag) == [exc |-> "", text |-> text, file |-> f, diag |-> diag]
Raised(exc, f) == [exc |-> exc, text |-> <<>>, file |-> f, diag |-> <<>>]

\* An extractor whose last branch returns "" without the warning.
extract_from_silent(f, pypdf2, docx) ==
    IF f.type = TXT THEN
        LET r == read(f) IN Returned(decode(r.data), r.file, <<>>)
    ELSE IF f.type = PDF THEN
        IF ~pypdf2 THEN Returned(<<>>, f, <<"PyPDF2 missing. Add to requirements.txt">>)
        ELSE IF ~f.wellformed THEN Raised("PdfReadError", f)
        ELSE Returned(concat_pages(f.pages), f, <<>>)
    ELSE IF f.type = DOCX THEN
        IF ~docx THEN Returned(<<>>, f, <<"python-docx missing. Add to requirements.txt">>)
        ELSE IF ~f.wellformed THEN Raised("BadZipFile", f)
        ELSE Returned(join_paragraphs(f.paragraphs), f, <<>>)
    ELSE Returned(<<>>, f, <<>>)

\* extract_text_from_file(uploaded_file), uploaded_file not None.  PdfReader
\* and docx.Document seek in the stream themselves, so their result does not
\* depend on the read position; they raise on a payload they cannot parse.
extract_from(f, pypdf2, docx) ==
    IF f.type = TXT THEN
        LET r == read(f) IN Returned(decode(r.data), r.file, <<>>)
    ELSE IF f.type = PDF THEN
        IF ~pypdf2 THEN Returned(<<>>, f, <<"PyPDF2 missing. Add to requirements.txt">>)
        ELSE IF ~f.wellformed THEN Raised("PdfReadError", f)
        ELSE Returned(concat_pages(f.pages), f, <<>>)
    ELSE IF f.type = DOCX THEN
        IF ~docx THEN Returned(<<>>, f, <<"python-docx missing. Add to requirements.txt">>)
        ELSE IF ~f.wellformed THEN Raised("BadZipFile", f)
        ELSE Returned(join_paragraphs(f.paragraphs), f, <<>>)
    ELSE Returned(<<>>, f, <<"Unsupported file type">>)

\* extract_text_from_file(uploaded_file); uploaded_file is None or Some(f).
extract_text_from_file(uf, pypdf2, docx) ==
    IF uf = None THEN [exc |-> "", text |-> <<>>, file |-> None, diag |-> <<>>]
    ELSE LET r == extract_from(uf[1], pypdf2, docx)
         IN  [r EXCEPT !.file = Some(r.file)]

-----------------------------------------------------------------------------
(* The response text and json.loads.  A response body is a sequence of     *)
(* lexical tokens; a parsed value is a number, a string, a list or a dict  *)
(* (a function from its keys to values).                                   *)
Tok(t, v) == [t |-> t, v |-> v]
LBrace   == Tok("{", "")
RBrace   == Tok("}", "")
LBracket == Tok("[", "")
RBracket == Tok("]", "")
Colon    == Tok(":", "")
Comma    == Tok(",", "")
Num(n)   == Tok("num", n)
Str(s)   == Tok("str", s)
Word(w)  == Tok("word", w)

\* A value has the same fields whatever its kind: s holds the text of a
\* number or a string, a the elements of a list, d the dict, c a response
\* body (or None).
Value(k, s, a, d, c) == [k |-> k, s |-> s, a |-> a, d |-> d, c |-> c]
JNum(n)  == Value("num", n, <<>>, <<>>, <<>>)
JStr(s)  == Value("str", s, <<>>, <<>>, <<>>)
JArr(a)  == Value("arr", "", a, <<>>, <<>>)
JObj(d)  == Value("obj", "", <<>>, d, <<>>)
\* A Python str holding a response body (or None): the value of "raw".
JText(c) == Value("text", "", <<>>, <<>>, c)

Parsed(val, rest) == [ok |-> TRUE, val |-> val, rest |-> rest]
NoParse == [ok |-> FALSE, val |-> JNum(""), rest |-> <<>>]

\* d[key] = val: a repeated key keeps its last value.
Put(d, key, val) == [x \in (DOMAIN d) \cup {key} |-> IF x = key THEN val ELSE d[x]]

\* The JSON grammar over tokens, by recursive descent.
RECURSIVE parse_value(_), parse_members(_, _), parse_elements(_, _)
parse_value(ts) ==
    IF ts = <<>> THEN NoParse
    ELSE IF ts[1].t = "num" THEN Parsed(JNum(ts[1].v), Tail(ts))
    ELSE IF ts[1].t = "str" THEN Parsed(JStr(ts[1].v), Tail(ts))
    ELSE IF ts[1].t = "{" THEN
        IF Len(ts) >= 2 /\ ts[2].t = "}" THEN Parsed(JObj(<<>>), Tail(Tail(ts)))
        ELSE parse_members(Tail(ts), <<>>)
    ELSE IF ts[1].t = "[" THEN
        IF Len(ts) >= 2 /\ ts[2].t = "]" THEN Parsed(JArr(<<>>), Tail(Tail(ts)))
        ELSE parse_elements(Tail(ts), <<>>)
    ELSE NoParse

parse_members(ts, d) ==
    IF Len(ts) < 3 \/ ts[1].t # "str" \/ ts[2].t # ":" THEN NoParse
    ELSE LET r == parse_value(Tail(Tail(ts))) IN
         IF ~r.ok \/ r.rest = <<>> THEN NoParse
         ELSE IF r.rest[1].t = "}" THEN Parsed(JObj(Put(d, ts[1].v, r.val)), Tail(r.rest))
         ELSE IF r.rest[1].t = "," THEN parse_members(Tail(r.rest), Put(d, ts[1].v, r.val))
         ELSE NoParse

parse_elements(ts, a) ==
    LET r == parse_value(ts) IN
    IF ~r.ok \/ r.rest = <<>> THEN NoParse
    ELSE IF r.rest[1].t = "]" THEN Parsed(JArr(Append(a, r.val)), Tail(r.rest))
    ELSE IF r.rest[1].t = "," THEN parse_elements(Tail(r.rest), Append(a, r.val))
    ELSE NoParse

\* json.loads(content): one JSON value and nothing after it.  A content of
\* None raises TypeError, any other failure JSONDecodeError; both count here
\* as no parse.
json_loads(content) ==
    IF content = None THEN NoParse
    ELSE LET r == parse_value(content[1])
         IN  IF r.ok /\ r.rest = <<>> THEN r ELSE NoParse

\* The seven keys the system prompt asks for.
Fields == {"match_score", "verdict", "summary", "strengths", "gaps",
           "improvement_suggestions", "recommended_role_level"}

\* {"error": "Invalid JSON from model", "raw": content}
ParseFailure(content) ==
    JObj([x \in {"error", "raw"} |->
            IF x = "error" THEN JStr("Invalid JSON from model") ELSE JText(content)])

\* What a call of analyze_resume ends with: a returned record or an exception.
Return(val) == [kind |-> "return", val |-> val, exc |-> ""]
Raise(exc)  == [kind |-> "raise", val |-> JNum(""), exc |-> exc]
Pending     == [kind |-> "pending", val |-> JNum(""), exc |-> ""]
NotCalled   == [kind |-> "none", val |-> JNum(""), exc |-> ""]

\* An analyze_resume without the try block around json.loads.
analyze_resume_no_except(answer) ==
    IF answer.failed THEN Raise("ServiceCallFailure")
    ELSE LET r == json_loads(answer.content)
         IN  IF r.ok THEN Return(r.val) ELSE Raise("JSONDecodeError")

\* An analyze_resume whose try block also covers the call to the service.
analyze_resume_call_in_try(answer) ==
    LET r == json_loads(answer.content)
    IN  IF ~answer.failed /\ r.ok THEN Return(r.val)
        ELSE Return(ParseFailure(answer.content))

\* analyze_resume from the end of client.chat.completions.create on: a
\* failure of the call is raised outside the try block and leaves the
\* function; otherwise the content is parsed and any failure of the parse
\* becomes the record with "error" and "raw".
analyze_resume(answer) ==
    IF answer.failed THEN Raise("ServiceCallFailure")
    ELSE LET r == json_loads(answer.content)
         IN  IF r.ok THEN Return(r.val) ELSE Return(ParseFailure(answer.content))

\* The request analyze_resume builds.
Request(resume, jd) ==
    [model |-> "gpt-4.1-mini", temperature |-> "0.2",
     response_format |-> "json_object",
     messages |-> <<[role |-> "system",
                     content |-> <<[label |-> "system_prompt", text |-> <<>>]>>],
                    [role |-> "user",
                     content |-> <<[label |-> "JOB DESCRIPTION:", text |-> jd],
                                   [label |-> "RESUME:", text |-> resume]>>]>>]

\* A create that sends the request again after the first attempt.
create_with_retry(out, request) == Append(Append(out, request), request)

\* client.chat.completions.create(...): the request goes out once.
create(out, request) == Append(out, request)

\* get_openai_client(api_key)
get_openai_client(api_key) ==
    IF api_key # "" THEN Some([api_key |-> api_key]) ELSE Some([api_key |-> "environment"])

\* str.strip(): whitespace removed from both ends.
Whitespace == {9, 10, 11, 12, 13, 28, 29, 30, 31, 32, 133, 160}
RECURSIVE lstrip(_), rstrip(_)
lstrip(s) == IF s # <<>> /\ s[1] \in Whitespace THEN lstrip(Tail(s)) ELSE s
rstrip(s) == IF s # <<>> /\ s[Len(s)] \in Whitespace
             THEN rstrip(SubSeq(s, 1, Len(s) - 1)) ELSE s
strip(s) == rstrip(lstrip(s))

\* Checks that test jd_text itself instead of jd_text.strip().
refusal_unstripped(resume, jd) ==
    IF resume = <<>> THEN "Upload resume first."
    ELSE IF jd = <<>> THEN "Paste job description."
    ELSE ""

\* The two checks of main before the client is built: the message shown
\* when the analysis is refused, "" when it goes ahead.
refusal(resume, jd) ==
    IF resume = <<>> THEN "Upload resume first."
    ELSE IF strip(jd) = <<>> THEN "Paste job description."
    ELSE ""

\* for s in result[key]: the value has to be iterable.
Iterable(val) == val.k \in {"arr", "str", "obj"}

\* main after analyze_resume has returned `result`: the screen shown and the
\* exception that ends the script ("" when none does).
render(result) ==
    IF result.k # "obj" THEN [screen |-> "traceback", exc |-> "TypeError"]
    ELSE IF "error" \in DOMAIN result.d THEN
        IF "raw" \in DOMAIN result.d
        THEN [screen |-> "Model error: Could not parse response", exc |-> ""]
        ELSE [screen |-> "traceback", exc |-> "KeyError"]
    ELSE IF ~(Fields \subseteq DOMAIN result.d) THEN [screen |-> "traceback", exc |-> "KeyError"]
    ELSE IF \E key \in {"strengths", "gaps", "improvement_suggestions"} :
                ~Iterable(result.d[key])
         THEN [screen |-> "traceback", exc |-> "TypeError"]
    ELSE [screen |-> "Match Summary", exc |-> ""]

-----------------------------------------------------------------------------
(* The response bodies the service is made to answer with.                 *)
KeyOrder == <<"match_score", "verdict", "summary", "strengths", "gaps",
              "improvement_suggestions", "recommended_role_level", "error", "raw">>

ValueTokens(key) ==
    IF key = "match_score" THEN <<Num("82")>>
    ELSE IF key \in {"strengths", "gaps", "improvement_suggestions"}
         THEN <<LBracket, Str("a"), Comma, Str("b"), RBracket>>
    ELSE <<Str("text")>>

\* The members `"key": value` of the keys in K, in KeyOrder, comma-separated.
RECURSIVE Members(_, _)
Members(K, i) ==
    IF i > Len(KeyOrder) THEN <<>>
    ELSE IF KeyOrder[i] \notin K THEN Members(K, i + 1)
    ELSE LET later == Members(K, i + 1)
         IN  <<Str(KeyOrder[i]), Colon>> \o ValueTokens(KeyOrder[i])
             \o (IF later = <<>> THEN <<>> ELSE <<Comma>> \o later)

\* The text of a JSON object with the keys K.
Dumps(K) == <<LBrace>> \o Members(K, 1) \o <<RBrace>>

\* Key sets: the seven fields less some, plus possibly "error" and "raw".
KeySets == {(Fields \ missing) \cup extra :
                missing \in {{}, {"match_score"}, {"summary", "gaps"}, Fields},
                extra \in {{}, {"error"}, {"error", "raw"}}}

Prose == <<Word("Sorry,"), Word("I"), Word("cannot"), Word("help"),
           Word("with"), Word("that.")>>

\* A reply of the service: whether the call failed, the content of the first
\* choice's message, and whether that content is one complete JSON text.
Reply(content, complete) == [failed |-> FALSE, content |-> content, complete |-> complete]
CallFailure == [failed |-> TRUE, content |-> None, complete |-> FALSE]

\* Lengths at which a body of `len` tokens is cut short.
Cuts(len) == {n \in {0, 1, 2, 4, len - 1} : n < len}

Replies ==
    {Reply(Some(Dumps(K)), TRUE) : K \in KeySets}
    \cup UNION {{Reply(Some(SubSeq(Dumps(K), 1, n)), FALSE) : n \in Cuts(Len(Dumps(K)))} :
                    K \in KeySets}
    \cup {Reply(Some(Dumps(K) \o <<Word("Thanks")>>), FALSE) : K \in KeySets}
    \cup {Reply(Some(Prose), FALSE), Reply(None, FALSE)}

-----------------------------------------------------------------------------
VARIABLES
    has_pypdf2,     \* whether `from PyPDF2 import PdfReader` succeeds
    has_docx,       \* whether `import docx` succeeds
    uploaded_file,  \* the file object a caller of the extractor holds, or None
    returns,        \* outcomes of the calls made on uploaded_file, in order
    diags,          \* st.error / st.warning messages emitted, in order
    pc,             \* the script main: "idle", "pending" (in the call), "done"
    pressed,        \* whether this run has the Analyze button pressed
    resume_text,    \* main's resume_text
    jd_text,        \* main's jd_text
    client,         \* the client main has built, or None
    sent,           \* the requests that went out to the service in this run
    reply,          \* what the service answered, or None
    outcome,        \* how the call of analyze_resume ended
    view            \* what main shows last, and the exception that ended it

extractor_vars == <<uploaded_file, returns>>
main_vars == <<pc, pressed, resume_text, jd_text, client, sent, reply, outcome, view>>
vars == <<has_pypdf2, has_docx, uploaded_file, returns, diags,
          pc, pressed, resume_text, jd_text, client, sent, reply, outcome, view>>

Showing(screen, exc) == [screen |-> screen, exc |-> exc]

Init ==
    /\ has_pypdf2 \in BOOLEAN
    /\ has_docx \in BOOLEAN
    /\ uploaded_file = None
    /\ returns = <<>>
    /\ diags = <<>>
    /\ pc = "idle"
    /\ pressed = FALSE
    /\ resume_text = <<>>
    /\ jd_text = <<>>
    /\ client = None
    /\ sent = <<>>
    /\ reply = None
    /\ outcome = NotCalled
    /\ view = Showing("", "")

\* The caller takes a document (a fresh file object), or none.
Supply(uf) ==
    /\ uploaded_file' = uf
    /\ returns' = <<>>
    /\ diags' = <<>>
    /\ UNCHANGED <<has_pypdf2, has_docx>>
    /\ UNCHANGED main_vars

\* One call extract_text_from_file(uploaded_file).
Extract ==
    /\ Len(returns) < MaxCalls
    /\ LET r == extract_text_from_file(uploaded_file, has_pypdf2, has_docx)
       IN  /\ uploaded_file' = r.file
           /\ returns' = Append(returns, [exc |-> r.exc, text |-> r.text])
           /\ diags' = diags \o r.diag
    /\ UNCHANGED <<has_pypdf2, has_docx>>
    /\ UNCHANGED main_vars

NextExtract ==
    \/ \E uf \in {None} \cup {Some(f) : f \in Files} : Supply(uf)
    \/ Extract

SpecExtract == Init /\ [][NextExtract]_vars

-----------------------------------------------------------------------------
(* The script main.  A run starts with the widgets' values: the uploaded   *)
(* file (a fresh file object, or None), the job description, the API key   *)
(* and whether the Analyze button is pressed.                              *)
JobDescriptions == SeqsUpTo(Chars, MaxLen)
ApiKeys == {"", "sk-key"}

\* main up to the point where analyze_resume waits for the service.
Main(uf, jd, api_key, button) ==
    /\ pc = "idle"
    /\ pressed' = button
    /\ jd_text' = jd
    /\ reply' = None
    /\ LET r == IF uf = None THEN extract_text_from_file(None, has_pypdf2, has_docx)
                ELSE extract_text_from_file(uf, has_pypdf2, has_docx)
           stop == IF r.exc # "" THEN "" ELSE refusal(r.text, jd)
       IN  /\ resume_text' = r.text
           /\ diags' = r.diag
           /\ IF r.exc # "" THEN
                  \* the exception leaves extract_text_from_file and main
                  /\ view' = Showing("traceback", r.exc)
                  /\ pc' = "done"
                  /\ client' = None /\ sent' = <<>> /\ outcome' = NotCalled
              ELSE IF ~button THEN
                  /\ view' = Showing("form", "")
                  /\ pc' = "done"
                  /\ client' = None /\ sent' = <<>> /\ outcome' = NotCalled
              ELSE IF stop # "" THEN
                  /\ view' = Showing(stop, "")
                  /\ pc' = "done"
                  /\ client' = None /\ sent' = <<>> /\ outcome' = NotCalled
              ELSE
                  /\ client' = get_openai_client(api_key)
                  /\ sent' = create(<<>>, Request(r.text, jd))
                  /\ outcome' = Pending
                  /\ view' = Showing("Analyzing...", "")
                  /\ pc' = "pending"
    /\ UNCHANGED <<has_pypdf2, has_docx>>
    /\ UNCHANGED extractor_vars

\* result = analyze_resume(...) and the rest of main: how the call ends, and
\* what main then shows, or the exception it ends with.
main_after(answer) ==
    LET o == analyze_resume(answer)
    IN  [outcome |-> o,
         view |-> IF o.kind = "raise" THEN Showing("traceback", o.exc) ELSE render(o.val)]

\* The service answers with a body.
Respond ==
    /\ pc = "pending"
    /\ \E answer \in Replies :
        /\ reply' = Some(answer)
        /\ outcome' = main_after(answer).outcome
        /\ view' = main_after(answer).view
        /\ pc' = "done"
        /\ UNCHANGED <<has_pypdf2, has_docx, diags, pressed, resume_text, jd_text,
                       client, sent>>
        /\ UNCHANGED extractor_vars

\* The call fails: timeout, authentication, rate limit.
CallFails ==
    /\ pc = "pending"
    /\ reply' = Some(CallFailure)
    /\ outcome' = main_after(CallFailure).outcome
    /\ view' = main_after(CallFailure).view
    /\ pc' = "done"
    /\ UNCHANGED <<has_pypdf2, has_docx, diags, pressed, resume_text, jd_text,
                   client, sent>>
    /\ UNCHANGED extractor_vars

\* The run is over; nothing of it is kept for the next one.
Rerun ==
    /\ pc = "done"
    /\ pc' = "idle"
    /\ pressed' = FALSE
    /\ resume_text' = <<>>
    /\ jd_text' = <<>>
    /\ client' = None
    /\ sent' = <<>>
    /\ reply' = None
    /\ outcome' = NotCalled
    /\ view' = Showing("", "")
    /\ diags' = <<>>
    /\ UNCHANGED <<has_pypdf2, has_docx>>
    /\ UNCHANGED extractor_vars

\* A run of the script, whatever the widgets hold.
Run ==
    /\ pc = "idle"
    /\ \E uf \in {None} \cup {Some(f) : f \in Files}, jd \in JobDescriptions,
          api_key \in ApiKeys, button \in BOOLEAN :
            Main(uf, jd, api_key, button)

Next ==
    \/ Run
    \/ Respond
    \/ CallFails
    \/ Rerun

Spec == Init /\ [][Next]_vars
-----------------------------------------------------------------------------
(* Properties of the extractor, under SpecExtract.                         *)

Supported == {TXT, PDF, DOCX}
\* The file object the calls in `returns` were made on.
Held == uploaded_file # None
TheFile == uploaded_file[1]

\* C3: whatever the document, extract_text_from_file ends by returning a
\* string; no call ends with an exception.
C3_ExtractNeverRaises ==
    \A i \in DOMAIN returns : returns[i].exc = ""

\* C6: on a document whose declared type is none of text/plain,
\* application/pdf and the word-processing type, every call returns the empty
\* string and emits "Unsupported file type" once and nothing else.
C6_UnsupportedType ==
    (Held /\ TheFile.type \notin Supported) =>
        /\ \A i \in DOMAIN returns : returns[i] = [exc |-> "", text |-> <<>>]
        /\ diags = [i \in DOMAIN returns |-> "Unsupported file type"]

C6_Witness ==
    /\ Held /\ TheFile.type \notin Supported /\ TheFile.bytes # <<>>
    /\ returns = <<[exc |-> "", text |-> <<>>]>>
    /\ diags = <<"Unsupported file type">>

\* C7: two successive calls on the same file object return the same text.
C7_ExtractTwiceSame ==
    \A i, j \in DOMAIN returns : returns[i].text = returns[j].text

\* What page i of a PDF contributes, and where its contribution starts.
PageText(pages, i) == IF pages[i] = None THEN <<>> ELSE pages[i][1]
RECURSIVE PageOffset(_, _)
PageOffset(pages, i) ==
    IF i <= 1 THEN 0
    ELSE PageOffset(pages, i - 1) + Len(PageText(pages, i - 1))

\* C9: on a PDF that parses, the text returned is the page texts one after
\* the other in page order with nothing between them, a page without text
\* contributing nothing.
C9_PdfPagesConcatenated ==
    (Held /\ TheFile.type = PDF /\ TheFile.wellformed /\ has_pypdf2) =>
        \A c \in DOMAIN returns :
            LET pages == TheFile.pages
                text == returns[c].text
            IN  /\ returns[c].exc = ""
                /\ Len(text) = PageOffset(pages, Len(pages) + 1)
                /\ \A i \in DOMAIN pages :
                     \A k \in 1..Len(PageText(pages, i)) :
                        text[PageOffset(pages, i) + k] = PageText(pages, i)[k]

C9_Witness ==
    /\ Held /\ TheFile.type = PDF /\ TheFile.wellformed /\ has_pypdf2
    /\ TheFile.pages = <<None, Some(<<97>>)>>
    /\ Len(returns) >= 1
    /\ returns[1] = [exc |-> "", text |-> <<97>>]
-----------------------------------------------------------------------------
(* Properties of analyze_resume and main, under Spec.                      *)

\* The run called analyze_resume and the call has ended.
Answered == pc = "done" /\ reply # None
TheReply == reply[1]
\* The keys of a returned value: those of a dict, none of anything else.
Keys(val) == IF val.k = "obj" THEN DOMAIN val.d ELSE {}
IsEvaluationResult(dict) == Fields \subseteq DOMAIN dict
IsParseFailure(dict) ==
    {"error", "raw"} \subseteq DOMAIN dict /\ DOMAIN dict \subseteq {"error", "raw"}

\* C1: when the response body is not valid JSON, analyze_resume returns the
\* record with "error" and "raw", raw being the body itself, and no
\* exception leaves the call or main.
C1_InvalidJsonIsParseFailure ==
    (Answered /\ ~TheReply.failed /\ ~TheReply.complete) =>
        /\ outcome.kind = "return"
        /\ outcome.val.k = "obj"
        /\ IsParseFailure(outcome.val.d)
        /\ outcome.val.d["raw"] = JText(TheReply.content)
        /\ outcome.exc = ""
        /\ view.exc = ""

C1_Witness ==
    /\ Answered
    /\ TheReply = Reply(Some(Prose), FALSE)
    /\ outcome.kind = "return"
    /\ outcome.val.d["raw"] = JText(Some(Prose))

\* C2: what analyze_resume returns is a record with all seven fields or the
\* record of a failed parse, never anything else.
C2_WholeResultOrParseFailure ==
    outcome.kind = "return" =>
        /\ outcome.val.k = "obj"
        /\ IsEvaluationResult(outcome.val.d) \/ IsParseFailure(outcome.val.d)

\* A job description of nothing but whitespace (or nothing at all).
Blank(text) == \A i \in DOMAIN text : text[i] \in Whitespace

\* C4: with an empty resume text or a blank job description no client is
\* built and no request goes out in the run.
C4_EmptyInputBlocksEvaluation ==
    (resume_text = <<>> \/ Blank(jd_text)) =>
        /\ client = None
        /\ sent = <<>>
        /\ pc # "pending"
        /\ outcome.kind = "none"

C4_Witness ==
    /\ pc = "done" /\ pressed
    /\ resume_text # <<>>
    /\ jd_text # <<>> /\ Blank(jd_text)
    /\ view = Showing("Paste job description.", "")
    /\ client = None /\ sent = <<>>

\* C5: a call of analyze_resume sends exactly one request, while it waits and
\* after it has ended, whether the service answered valid JSON, invalid JSON
\* or failed; and once ended it has ended in one way: it returned a record,
\* or (when the call failed) raised.
C5_OneCallOneOutcome ==
    /\ outcome.kind = "none" => sent = <<>>
    /\ outcome.kind # "none" =>
          /\ Len(sent) = 1
          /\ sent[1] = Request(resume_text, jd_text)
    /\ pc = "pending" => outcome.kind = "pending" /\ reply = None
    /\ (pc = "done" /\ outcome.kind # "none") =>
          /\ reply # None
          /\ outcome.kind \in {"return", "raise"}
          /\ outcome.kind = "raise" <=> TheReply.failed

C5_Witness ==
    /\ Answered
    /\ ~TheReply.failed /\ ~TheReply.complete
    /\ Len(sent) = 1
    /\ outcome.kind = "return"

\* C8: when the call to the service fails, analyze_resume returns no record:
\* the failure leaves it as an exception and ends main too.
C8_CallFailurePropagates ==
    (Answered /\ TheReply.failed) =>
        /\ outcome.kind = "raise"
        /\ outcome.exc = "ServiceCallFailure"
        /\ view = Showing("traceback", "ServiceCallFailure")

C8_Witness ==
    /\ Answered /\ TheReply.failed
    /\ outcome.kind = "raise"
    /\ view.screen = "traceback"

\* C10: the returned record has the key "error" exactly when the parse of
\* the response failed, and then it has "raw" too.
C10_ErrorKeyIffParseFailed ==
    (Answered /\ outcome.kind = "return") =>
        /\ "error" \in Keys(outcome.val) <=> ~TheReply.complete
        /\ "error" \in Keys(outcome.val) => "raw" \in Keys(outcome.val)
====
